---- MODULE Spec2Model ----
(***************************************************************************)
(* Force-feedback emulation of the virtual joypad                          *)
(* (src/uinput/joypad_utils.hpp): the envelope simulator simulate_rumble,  *)
(* the construction of an ActiveRumbleEffect from an uploaded ff_effect,   *)
(* and the polling loop event_listener with its effect store, its active   *)
(* effects and the on_rumble callback.                                     *)
(*                                                                         *)
(* Representation of the C++ values:                                       *)
(*  - std::uint32_t is a pair <<hi, lo>> of 16-bit limbs (value            *)
(*    hi * 65536 + lo), so that the wrap-around of unsigned arithmetic is  *)
(*    computed at its true width without leaving TLC's integer range;      *)
(*  - steady_clock::time_point is a natural number of clock periods,       *)
(*    UnitsPerMs periods to the millisecond; std::chrono::milliseconds is  *)
(*    a count of milliseconds;                                             *)
(*  - ff_effect is a record with the fields the code reads.                *)
(***************************************************************************)
EXTENDS Integers, Sequences, FiniteSets, TLC

\* ------------------------------------------------------------------------
\* Program constants
\* ------------------------------------------------------------------------

\* static constexpr int MAX_GAIN = 0xFFFF;
MAX_GAIN == 65535

\* upper limit of std::clamp(effect.replay.delay / length, 0, 32767)
MAX_DURATION == 32767

\* std::this_thread::sleep_for(20ms) at the top of every loop iteration
TickPeriod == 20

\* linux/input-event-codes.h: FF_GAIN = 0x60, the EV_FF code that is not an effect id
FF_GAIN == 96

\* ------------------------------------------------------------------------
\* Bounds of the model
\* ------------------------------------------------------------------------

\* clock periods per millisecond (steady_clock is finer than 1 ms)
UnitsPerMs == 2

\* the loop is followed for this many iterations
MaxTicks == 6

\* fetch_events returns at most this many events per iteration
MaxEvents == 1

\* an iteration lasts the TickPeriod ms of its sleep plus this many clock
\* periods (sleep_for sleeps at least 20 ms, and the handling takes time)
IterationOverhead == 1

\* at most this many instances are followed in active_effects
MaxActive == 3

\* ------------------------------------------------------------------------
\* std::uint32_t arithmetic on 16-bit limbs
\* ------------------------------------------------------------------------

Limb == 65536

\* conversion of an integer (possibly negative: __s16 levels are sign-extended)
\* to std::uint32_t, i.e. its residue modulo 2^32
U32(x) == << (x \div Limb) % Limb, x % Limb >>

ZeroU32 == U32(0)

\* a + b modulo 2^32
U32Add(a, b) ==
    LET lo == a[2] + b[2]
        hi == a[1] + b[1] + (lo \div Limb)
    IN  << hi % Limb, lo % Limb >>

\* a - b modulo 2^32
U32Sub(a, b) ==
    LET lo == a[2] - b[2]
        hi == a[1] - b[1] + (lo \div Limb)
    IN  << hi % Limb, lo % Limb >>

\* the product of two 16-bit limbs as <<high limb, low limb>>
MulLimb(x, g) ==
    LET gh == g \div 256
        gl == g % 256
        p  == x * gh
        q  == x * gl
        lo == (p % 256) * 256 + q
        hi == (p \div 256) + (lo \div Limb)
    IN  << hi, lo % Limb >>

\* a * g modulo 2^32, for 0 <= g < 2^16 (unsigned multiplication wraps)
U32MulSmall(a, g) ==
    LET l == MulLimb(a[2], g)
        h == MulLimb(a[1], g)
    IN  << (h[2] + l[1]) % Limb, l[2] >>

\* a / MAX_GAIN (unsigned division): a = hi * MAX_GAIN + (hi + lo)
U32DivMaxGain(a) == U32(a[1] + ((a[1] + a[2]) \div MAX_GAIN))

\* (rel * count / length) modulo 2^32, where rel is a uint32, and count and
\* length are 64-bit signed with 0 <= count, 0 < length <= MAX_DURATION: the
\* product and the quotient are exact in 64 bits, the conversion of the result
\* to uint32 keeps the two low limbs.
MulDivU32(rel, count, length) ==
    LET p0 == rel[2] * count
        p1 == rel[1] * count + (p0 \div Limb)
        d0 == p0 % Limb
        d1 == p1 % Limb
        d2 == p1 \div Limb
        n1 == (d2 % length) * Limb + d1
        n0 == (n1 % length) * Limb + d0
    IN  << (n1 \div length) % Limb, (n0 \div length) % Limb >>

\* Clamp without the upper limit
ClampBelow(v, lo, hi) == IF v < lo THEN lo ELSE v

\* std::clamp(v, lo, hi)
Clamp(v, lo, hi) == IF v < lo THEN lo ELSE IF hi < v THEN hi ELSE v

\* ------------------------------------------------------------------------
\* ff_effect descriptors (linux/input.h), as far as the code reads them
\* ------------------------------------------------------------------------

\* ff_envelope: attack_length, attack_level, fade_length, fade_level (__u16)
Envelope(al, alv, fl, flv) ==
    [attack_length |-> al, attack_level |-> alv, fade_length |-> fl, fade_level |-> flv]

\* envelope = {}
NoEnvelope == Envelope(0, 0, 0, 0)

\* ff_effect: type, replay.delay, replay.length and the member of the union u
\* that belongs to the type
FFConstant(delay, length, level, env) ==
    [type |-> "FF_CONSTANT", delay |-> delay, length |-> length,
     level |-> level, envelope |-> env]

FFPeriodic(delay, length, magnitude, env) ==
    [type |-> "FF_PERIODIC", delay |-> delay, length |-> length,
     magnitude |-> magnitude, envelope |-> env]

FFRamp(delay, length, start_level, end_level, env) ==
    [type |-> "FF_RAMP", delay |-> delay, length |-> length,
     start_level |-> start_level, end_level |-> end_level, envelope |-> env]

FFRumble(delay, length, weak_magnitude, strong_magnitude) ==
    [type |-> "FF_RUMBLE", delay |-> delay, length |-> length,
     weak_magnitude |-> weak_magnitude, strong_magnitude |-> strong_magnitude]

\* the value of an absent map entry (ff_effects.find(id) == ff_effects.end())
NoEffect == [type |-> "none", delay |-> 0, length |-> 0]

\* ------------------------------------------------------------------------
\* rumble_magnitude, simulate_rumble, create_rumble_effect
\* ------------------------------------------------------------------------

\* start + (rel * time_left.count() / length.count()), rel = end - start in
\* uint32, the product and the sum in 64 bits, the result converted to uint32
rumble_magnitude(time_left, start, end, length) ==
    LET rel == U32Sub(end, start)
    IN  U32Add(start, MulDivU32(rel, time_left, length))

\* duration_cast<milliseconds>(end_point - now): truncation to whole ms
time_left_ms(effect, now) == (effect.end_point - now) \div UnitsPerMs

\* which branch of the envelope the code takes at `now` (inside the window)
Phase(effect, now) ==
    LET time_left == time_left_ms(effect, now)
        t         == effect.length - time_left
    IN  IF effect.end_point < now \/ now < effect.start_point THEN "outside"
        ELSE IF t < effect.envelope.attack_length THEN "attack"
        ELSE IF time_left < effect.envelope.fade_length THEN "fade"
        ELSE "sustain"

\* PreGain with an attack that starts from the effect's start magnitude
PreGainAttackFromStart(effect, now) ==
    LET time_left == time_left_ms(effect, now)
        t         == effect.length - time_left
        env       == effect.envelope
    IN  IF t < env.attack_length
        THEN << U32((env.attack_level * t + effect.start.weak[2] * (env.attack_length - t))
                        \div env.attack_length),
                U32((env.attack_level * t + effect.start.strong[2] * (env.attack_length - t))
                        \div env.attack_length) >>
        ELSE IF time_left < env.fade_length
        THEN LET dt == (t - effect.length) + env.fade_length
             IN  << U32((env.fade_level * dt) \div env.fade_length),
                    U32((env.fade_level * dt) \div env.fade_length) >>
        ELSE << rumble_magnitude(t, effect.start.weak, effect.end.weak, effect.length),
                rumble_magnitude(t, effect.start.strong, effect.end.strong, effect.length) >>

\* PreGain with a fade that runs from fade_level down to 0
PreGainFadeDown(effect, now) ==
    LET time_left == time_left_ms(effect, now)
        t         == effect.length - time_left
        env       == effect.envelope
    IN  IF t < env.attack_length
        THEN << U32((env.attack_level * t) \div env.attack_length),
                U32((env.attack_level * t) \div env.attack_length) >>
        ELSE IF time_left < env.fade_length
        THEN LET dt == (t - effect.length) + env.fade_length
             IN  << U32((env.fade_level * (env.fade_length - dt)) \div env.fade_length),
                    U32((env.fade_level * (env.fade_length - dt)) \div env.fade_length) >>
        ELSE << rumble_magnitude(t, effect.start.weak, effect.end.weak, effect.length),
                rumble_magnitude(t, effect.start.strong, effect.end.strong, effect.length) >>

\* the (weak, strong) pair before the gain is applied (lines 79-95); weak and
\* strong start at 0, and the attack and fade branches interpolate from them
PreGain(effect, now) ==
    LET time_left == time_left_ms(effect, now)
        t         == effect.length - time_left
        weak0     == 0
        strong0   == 0
        env       == effect.envelope
    IN  IF t < env.attack_length
        THEN << U32((env.attack_level * t + weak0 * (env.attack_length - t))
                        \div env.attack_length),
                U32((env.attack_level * t + strong0 * (env.attack_length - t))
                        \div env.attack_length) >>
        ELSE IF time_left < env.fade_length
        THEN LET dt == (t - effect.length) + env.fade_length
             IN  << U32((env.fade_level * dt + weak0 * (env.fade_length - dt))
                            \div env.fade_length),
                    U32((env.fade_level * dt + strong0 * (env.fade_length - dt))
                            \div env.fade_length) >>
        ELSE << rumble_magnitude(t, effect.start.weak, effect.end.weak, effect.length),
                rumble_magnitude(t, effect.start.strong, effect.end.strong, effect.length) >>

\* ApplyGain that takes a gain of 0 for "no gain set" and leaves the value
ApplyGainZeroUnset(v, gain) ==
    IF gain = 0 THEN v ELSE U32DivMaxGain(U32MulSmall(v, gain))

\* weak * effect.gain / MAX_GAIN in unsigned 32-bit arithmetic
ApplyGain(v, gain) == U32DivMaxGain(U32MulSmall(v, gain))

\* simulate_rumble that only looks at the end of the window
simulate_rumble_from_activation(effect, now) ==
    IF effect.end_point < now
    THEN << ZeroU32, ZeroU32 >>
    ELSE LET p == PreGain(effect, now)
         IN  << ApplyGain(p[1], effect.gain), ApplyGain(p[2], effect.gain) >>

\* simulate_rumble: the pair <<weak, strong>>
simulate_rumble(effect, now) ==
    IF effect.end_point < now \/ now < effect.start_point
    THEN << ZeroU32, ZeroU32 >>
    ELSE LET p == PreGain(effect, now)
         IN  << ApplyGain(p[1], effect.gain), ApplyGain(p[2], effect.gain) >>

\* create_rumble_effect, `now` being the clock value it reads
create_rumble_effect(effect_id, effect_gain, effect, now) ==
    LET delay  == Clamp(effect.delay, 0, MAX_DURATION)
        length == Clamp(effect.length, 0, MAX_DURATION)
        lv     == CASE effect.type = "FF_CONSTANT" ->
                         [sw |-> U32(effect.level), ss |-> U32(effect.level),
                          ew |-> U32(effect.level), es |-> U32(effect.level),
                          env |-> effect.envelope]
                    [] effect.type = "FF_PERIODIC" ->
                         [sw |-> U32(effect.magnitude), ss |-> U32(effect.magnitude),
                          ew |-> U32(effect.magnitude), es |-> U32(effect.magnitude),
                          env |-> effect.envelope]
                    [] effect.type = "FF_RAMP" ->
                         [sw |-> U32(effect.start_level), ss |-> U32(effect.start_level),
                          ew |-> U32(effect.end_level), es |-> U32(effect.end_level),
                          env |-> effect.envelope]
                    [] effect.type = "FF_RUMBLE" ->
                         [sw |-> U32(effect.weak_magnitude), ss |-> U32(effect.strong_magnitude),
                          ew |-> U32(effect.weak_magnitude), es |-> U32(effect.strong_magnitude),
                          env |-> NoEnvelope]
                    [] OTHER ->
                         [sw |-> ZeroU32, ss |-> ZeroU32, ew |-> ZeroU32, es |-> ZeroU32,
                          env |-> NoEnvelope]
    IN  [effect_id   |-> effect_id,
         start_point |-> now + delay * UnitsPerMs,
         end_point   |-> now + delay * UnitsPerMs + length * UnitsPerMs,
         length      |-> length,
         envelope    |-> lv.env,
         start       |-> [weak |-> lv.sw, strong |-> lv.ss],
         end         |-> [weak |-> lv.ew, strong |-> lv.es],
         gain        |-> effect_gain,
         previous    |-> << ZeroU32, ZeroU32 >>]

\* ------------------------------------------------------------------------
\* State of event_listener
\* ------------------------------------------------------------------------

VARIABLES
    pc,                     \* position of the listener thread: "idle", "check"
                            \* (the while condition), "sleep" (inside the
                            \* iteration), "stopped", "failed", "undefined"
    stop_listening_events,  \* state->stop_listening_events, set by another thread
    on_rumble,              \* whether state->on_rumble holds a callback
    clock,                  \* steady_clock, in clock periods
    ticks,                  \* number of fetch_events calls made so far
    ff_effects,             \* std::map<int, ff_effect>: id -> ff_effect or NoEffect
    current_gain,           \* int current_gain
    active_effects,         \* std::vector<ActiveRumbleEffect>; each instance also
                            \* carries uid, the serial number of its activation
    next_uid,               \* serial number of the next activation
    log,                    \* what the last iteration did to the outside, in order:
                            \* fetch_events (with the events it returned), ioctl
                            \* requests, on_rumble calls
    sim                     \* the simulator run on its own: the descriptor, the
                            \* instance made of it, the instant and the results

vars == << pc, stop_listening_events, on_rumble, clock, ticks, ff_effects,
           current_gain, active_effects, next_uid, log, sim >>

\* ------------------------------------------------------------------------
\* Inputs of the model
\* ------------------------------------------------------------------------

\* effect ids the kernel hands out
EffectIds == {1, 2}

\* linux/uinput.h: UI_FF_UPLOAD = 1, UI_FF_ERASE = 2 (codes of EV_UINPUT events)
UI_FF_UPLOAD == 1
UI_FF_ERASE == 2

\* uploaded descriptors: a rumble (weak 100, strong 200) of 41 ms, which ends
\* at the very instant of the second iteration after its activation; a
\* constant of 50 ms with an attack and a fade; a constant of length 0; a
\* periodic with an attack whose delay and length (__u16) are above 32767
Descs ==
    { FFRumble(0, 41, 100, 200),
      FFConstant(0, 50, 300, Envelope(25, 1000, 25, 500)),
      FFConstant(0, 0, 300, NoEnvelope),
      FFPeriodic(40000, 50000, 5000, Envelope(10, 1000, 0, 0)) }

\* values of FF_GAIN events: below and above [0, MAX_GAIN]
GainValues == {-5, 70000}

Event(type, code, value, id, effect) ==
    [type |-> type, code |-> code, value |-> value, effect_id |-> id, effect |-> effect]

\* the events fetch_events can return, each with what the begin-ioctl retrieves
Events ==
    { Event("EV_UINPUT", UI_FF_UPLOAD, 0, id, d) : id \in EffectIds, d \in Descs }
    \cup { Event("EV_UINPUT", UI_FF_ERASE, 0, id, NoEffect) : id \in EffectIds }
    \cup { Event("EV_FF", FF_GAIN, v, 0, NoEffect) : v \in GainValues }
    \cup { Event("EV_FF", id, v, 0, NoEffect) : id \in EffectIds, v \in {0, 1} }
    \cup { Event("EV_LED", 0, 1, 0, NoEffect) }

EventSeqs == UNION { [1..n -> Events] : n \in 0..MaxEvents }

\* uploads of the two descriptors of 41 and 50 ms, and activations
QuietEvents ==
    { Event("EV_UINPUT", UI_FF_UPLOAD, 0, 1, FFRumble(0, 41, 100, 200)),
      Event("EV_UINPUT", UI_FF_UPLOAD, 0, 2,
            FFConstant(0, 50, 300, Envelope(25, 1000, 25, 500))) }
    \cup { Event("EV_FF", id, 1, 0, NoEffect) : id \in EffectIds }

QuietEventSeqs == UNION { [1..n -> QuietEvents] : n \in 0..MaxEvents }

\* how long an iteration lasts, in clock periods
Step == TickPeriod * UnitsPerMs + IterationOverhead

\* ------------------------------------------------------------------------
\* The handlers, on the loop's locals s = [ff_effects, current_gain,
\* active_effects, next_uid, log]
\* ------------------------------------------------------------------------

\* an ioctl on the uinput fd, with the effect id its structure carries
Ioctl(req, id) == [op |-> "ioctl", req |-> req, effect_id |-> id]

\* fetch_events(uinput_fd) and the events it returned
Fetch(evs) == [op |-> "fetch_events", events |-> evs]

RumbleCall(strong, weak, src, uid) ==
    [op |-> "on_rumble", strong |-> strong, weak |-> weak, src |-> src, uid |-> uid]

\* RemovalCalls with a single on_rumble(0, 0) for all the instances one
\* remove_effects takes away
RemovalCallsOnce(removed, src) ==
    IF on_rumble /\ removed # << >>
    THEN << RumbleCall(ZeroU32, ZeroU32, src, removed[1].uid) >>
    ELSE << >>

\* the on_rumble(0, 0) calls of remove_effects, one per removed instance, in
\* the order of the vector; none without a callback
RemovalCalls(removed, src) ==
    IF on_rumble
    THEN [i \in 1..Len(removed) |-> RumbleCall(ZeroU32, ZeroU32, src, removed[i].uid)]
    ELSE << >>

\* remove_effects(filter_fn), called from `src`
remove_effects(s, filter_fn(_), src) ==
    [s EXCEPT !.active_effects = SelectSeq(s.active_effects, LAMBDA e : ~filter_fn(e)),
              !.log = s.log \o RemovalCalls(SelectSeq(s.active_effects, filter_fn), src)]

\* HandleUpload that also stops the instances made of the replaced descriptor
HandleUploadStopsInstances(s, ev) ==
    LET s1 == remove_effects(s, LAMBDA e : e.effect_id = ev.effect_id, "upload")
    IN  [s1 EXCEPT !.ff_effects = [s.ff_effects EXCEPT ![ev.effect_id] = ev.effect],
                   !.log = s1.log \o << Ioctl("UI_BEGIN_FF_UPLOAD", ev.effect_id),
                                         Ioctl("UI_END_FF_UPLOAD", ev.effect_id) >>]

\* EV_UINPUT / UI_FF_UPLOAD
HandleUpload(s, ev) ==
    [s EXCEPT !.ff_effects = [s.ff_effects EXCEPT ![ev.effect_id] = ev.effect],
              !.log = s.log \o << Ioctl("UI_BEGIN_FF_UPLOAD", ev.effect_id),
                                   Ioctl("UI_END_FF_UPLOAD", ev.effect_id) >>]

\* HandleErase that acknowledges the request and leaves the instances running
HandleEraseNoDeactivate(s, ev) ==
    [s EXCEPT !.log = s.log \o << Ioctl("UI_BEGIN_FF_ERASE", ev.effect_id),
                                   Ioctl("UI_END_FF_ERASE", ev.effect_id) >>]

\* EV_UINPUT / UI_FF_ERASE
HandleErase(s, ev) ==
    LET s1 == [s EXCEPT !.log = Append(s.log, Ioctl("UI_BEGIN_FF_ERASE", ev.effect_id))]
        s2 == remove_effects(s1, LAMBDA e : e.effect_id = ev.effect_id, "erase")
    IN  [s2 EXCEPT !.log = Append(s2.log, Ioctl("UI_END_FF_ERASE", ev.effect_id))]

\* HandleGain that also rewrites the gain of the instances already running
HandleGainRetroactive(s, ev) ==
    [s EXCEPT !.current_gain = Clamp(ev.value, 0, MAX_GAIN),
              !.active_effects = [i \in 1..Len(s.active_effects) |->
                                     [s.active_effects[i] EXCEPT
                                         !.gain = Clamp(ev.value, 0, MAX_GAIN)]]]

\* EV_FF / FF_GAIN
HandleGain(s, ev) ==
    [s EXCEPT !.current_gain = Clamp(ev.value, 0, MAX_GAIN)]

\* HandleActivate without the lookup: it builds an instance from whatever
\* the map holds
HandleActivateNoLookup(s, ev, now) ==
    [s EXCEPT !.active_effects =
                  Append(s.active_effects,
                         [uid |-> s.next_uid] @@
                         create_rumble_effect(ev.code, s.current_gain,
                                              s.ff_effects[ev.code], now)),
              !.next_uid = s.next_uid + 1]

\* EV_FF with a nonzero value
HandleActivate(s, ev, now) ==
    IF s.ff_effects[ev.code] # NoEffect
    THEN [s EXCEPT !.active_effects =
                       Append(s.active_effects,
                              [uid |-> s.next_uid] @@
                              create_rumble_effect(ev.code, s.current_gain,
                                                   s.ff_effects[ev.code], now)),
                   !.next_uid = s.next_uid + 1]
    ELSE s

\* HandleDeactivate that stops at the first instance of the id
HandleDeactivateFirstOnly(s, ev) ==
    LET mine  == { i \in 1..Len(s.active_effects) :
                     s.active_effects[i].effect_id = ev.code }
        first == CHOOSE i \in mine : \A m \in mine : i <= m
    IN  IF mine = {} THEN s
        ELSE remove_effects(s, LAMBDA e : e.uid = s.active_effects[first].uid,
                            "deactivate")

\* EV_FF with value 0
HandleDeactivate(s, ev) ==
    remove_effects(s, LAMBDA e : e.effect_id = ev.code, "deactivate")

\* the if / else-if chain of the for loop over the fetched events
HandleEvent(s, ev, now) ==
    IF ev.type = "EV_UINPUT" /\ ev.code = UI_FF_UPLOAD THEN HandleUpload(s, ev)
    ELSE IF ev.type = "EV_UINPUT" /\ ev.code = UI_FF_ERASE THEN HandleErase(s, ev)
    ELSE IF ev.type = "EV_FF" /\ ev.code = FF_GAIN THEN HandleGain(s, ev)
    ELSE IF ev.type = "EV_FF"
         THEN IF ev.value # 0 THEN HandleActivate(s, ev, now)
                              ELSE HandleDeactivate(s, ev)
    ELSE s

RECURSIVE HandleEvents(_, _, _)
HandleEvents(s, evs, now) ==
    IF evs = << >> THEN s
    ELSE HandleEvents(HandleEvent(s, Head(evs), now), Tail(evs), now)

\* Sweep with a strict comparison
SweepStrict(s, now) ==
    remove_effects(s, LAMBDA e : e.end_point < now, "sweep")

\* remove_effects([now](effect) { return effect.end_point <= now; })
Sweep(s, now) ==
    remove_effects(s, LAMBDA e : e.end_point <= now, "sweep")

\* SimulateCalls with the two arguments of the callback in the other order
SimulateCallsWeakFirst(active, now) ==
    LET cand == [i \in 1..Len(active) |->
                    LET r == simulate_rumble(active[i], now)
                    IN  [changed |-> active[i].previous[1] # r[1]
                                     \/ active[i].previous[2] # r[2],
                         call    |-> RumbleCall(r[1], r[2], "simulate", active[i].uid)]]
        sel  == SelectSeq(cand, LAMBDA c : c.changed)
    IN  IF on_rumble THEN [i \in 1..Len(sel) |-> sel[i].call] ELSE << >>

\* the on_rumble(strong, weak) calls of the loop over active_effects
SimulateCalls(active, now) ==
    LET cand == [i \in 1..Len(active) |->
                    LET r == simulate_rumble(active[i], now)
                    IN  [changed |-> active[i].previous[1] # r[1]
                                     \/ active[i].previous[2] # r[2],
                         call    |-> RumbleCall(r[2], r[1], "simulate", active[i].uid)]]
        sel  == SelectSeq(cand, LAMBDA c : c.changed)
    IN  IF on_rumble THEN [i \in 1..Len(sel) |-> sel[i].call] ELSE << >>

\* `for (auto effect : active_effects)`: effect is a copy of the element, so
\* the assignments to effect.previous change the copy and active_effects
\* keeps every instance as it was
Simulate(s, now) ==
    [s EXCEPT !.log = s.log \o SimulateCalls(s.active_effects, now)]

\* the divisors of the divisions simulate_rumble makes for `effect` at `now`
\* besides MAX_GAIN: none outside the window, attack_length in the attack
\* branch, fade_length in the fade branch, length in rumble_magnitude
Divisors(effect, now) ==
    LET ph == Phase(effect, now)
    IN  IF ph = "outside" THEN {}
        ELSE IF ph = "attack" THEN {effect.envelope.attack_length}
        ELSE IF ph = "fade" THEN {effect.envelope.fade_length}
        ELSE {effect.length}

\* the loop over active_effects would divide by zero: undefined behaviour
DividesByZero(active, now) ==
    \E i \in 1..Len(active) : 0 \in Divisors(active[i], now)

\* the loop's locals as an iteration finds them, and its fetch
Locals(effects, gain, active, uid, evs) ==
    [ff_effects |-> effects, current_gain |-> gain, active_effects |-> active,
     next_uid |-> uid, log |-> << Fetch(evs) >>]

\* one iteration of the while loop, after the sleep, at clock value `now`
Iteration(s, evs, now) ==
    Simulate(Sweep(HandleEvents(s, evs, now), now), now)

\* ------------------------------------------------------------------------
\* The simulator on its own: one instance, evaluated at every clock value
\* from its activation to past its end
\* ------------------------------------------------------------------------

\* descriptors for the simulator: an ascending and a descending ramp, a
\* rumble, a delayed constant with attack, sustain and fade, a periodic with a
\* fade only, a descending ramp with an attack
SimDescs ==
    { FFRamp(0, 50, 20, 100, NoEnvelope),
      FFRamp(0, 50, 100, 20, NoEnvelope),
      FFRumble(0, 40, 100, 200),
      FFConstant(10, 60, 300, Envelope(25, 1000, 25, 500)),
      FFPeriodic(0, 30, 5000, Envelope(0, 0, 20, 40000)),
      FFRamp(0, 30, 200, 50, Envelope(10, 30000, 0, 0)) }

\* captured gains
SimGains == {0, 30000, MAX_GAIN}

\* the simulator's view of `effect` at `now`: the branch it takes, the pair
\* before the gain, the pair it returns, and the on_rumble calls the loop over
\* active_effects makes for the instance at that instant
SimAt(effect, now) ==
    [effect |-> effect,
     now    |-> now,
     phase  |-> Phase(effect, now),
     pre    |-> IF Phase(effect, now) = "outside" THEN << ZeroU32, ZeroU32 >>
                ELSE PreGain(effect, now),
     out    |-> simulate_rumble(effect, now),
     calls  |-> SimulateCalls(<< [uid |-> 1] @@ effect >>, now)]

\* the simulator is not run on its own
NoSim == [phase |-> "off"]

\* ------------------------------------------------------------------------
\* Actions
\* ------------------------------------------------------------------------

Init ==
    /\ pc = "idle"
    /\ stop_listening_events = FALSE
    /\ on_rumble \in BOOLEAN
    /\ clock = 0
    /\ ticks = 0
    /\ ff_effects = [id \in EffectIds |-> NoEffect]
    /\ current_gain = MAX_GAIN
    /\ active_effects = << >>
    /\ next_uid = 1
    /\ log = << >>
    /\ sim = NoSim

\* lines 158-168: the start-up sleep, then the file descriptor is there or not
Start ==
    /\ pc = "idle"
    /\ \E fd_ok \in BOOLEAN : pc' = IF fd_ok THEN "check" ELSE "failed"
    /\ clock' = clock + 100 * UnitsPerMs
    /\ UNCHANGED << stop_listening_events, on_rumble, ticks, ff_effects, current_gain,
                    active_effects, next_uid, log, sim >>

\* LoopCheck with the condition never seeing the flag
LoopCheckIgnoresStop ==
    /\ pc = "check"
    /\ pc' = "sleep"
    /\ UNCHANGED << stop_listening_events, on_rumble, clock, ticks, ff_effects,
                    current_gain, active_effects, next_uid, log, sim >>

\* while (!state->stop_listening_events)
LoopCheck ==
    /\ pc = "check"
    /\ pc' = IF stop_listening_events THEN "stopped" ELSE "sleep"
    /\ UNCHANGED << stop_listening_events, on_rumble, clock, ticks, ff_effects,
                    current_gain, active_effects, next_uid, log, sim >>

\* the body of the loop: sleep, fetch, handle, sweep, simulate. A division
\* by zero in the simulation is undefined behaviour: whatever the build makes
\* of it (a trap, an arbitrary value), nothing is known of the listener from
\* there on, and it is left at "undefined" with what it had done before.
\* fetch_events returns one of the sequences `seqs`.
TickOn(seqs) ==
    /\ pc = "sleep"
    /\ ticks < MaxTicks
    /\ \E evs \in seqs :
         LET now == clock + Step
             s0  == Locals(ff_effects, current_gain, active_effects, next_uid, evs)
             sw  == Sweep(HandleEvents(s0, evs, now), now)
             ub  == DividesByZero(sw.active_effects, now)
             s1  == IF ub THEN sw ELSE Iteration(s0, evs, now)
         IN  /\ Len(HandleEvents(s0, evs, now).active_effects) <= MaxActive
             /\ clock' = now
             /\ ff_effects' = s1.ff_effects
             /\ current_gain' = s1.current_gain
             /\ active_effects' = s1.active_effects
             /\ next_uid' = s1.next_uid
             /\ log' = s1.log
             /\ pc' = IF ub THEN "undefined" ELSE "check"
    /\ ticks' = ticks + 1
    /\ UNCHANGED << stop_listening_events, on_rumble, sim >>

\* an iteration of the loop, with any of the events
Tick == TickOn(EventSeqs)

\* an iteration of the loop with uploads and activations only, so that
\* nothing but the sweep takes an instance out of the active set
QuietTick == TickOn(QuietEventSeqs)

\* another thread asks the listener to stop
SetStop ==
    /\ ~stop_listening_events
    /\ pc \notin {"stopped", "failed"}
    /\ stop_listening_events' = TRUE
    /\ UNCHANGED << pc, on_rumble, clock, ticks, ff_effects, current_gain,
                    active_effects, next_uid, log, sim >>

Next == Start \/ LoopCheck \/ Tick \/ SetStop

Spec == Init /\ [][Next]_vars

\* the loop with no deactivate and no erase event
LiveNext == Start \/ LoopCheck \/ QuietTick \/ SetStop

\* a step that is an iteration of the loop: the only steps that leave "sleep"
\* and count a fetch are those of Tick and QuietTick, which are enabled
\* whenever the thread is inside the loop (fetch_events may return nothing)
TickStep == pc = "sleep" /\ ticks < MaxTicks /\ ticks' = ticks + 1

\* the listener thread is scheduled: it evaluates its loop condition, and its
\* sleep of 20 ms returns and the iteration is run
LiveSpec == Init /\ [][LiveNext]_vars /\ WF_vars(LoopCheck) /\ WF_ticks(TickStep)

\* ------------------------------------------------------------------------
\* The simulator's specification
\* ------------------------------------------------------------------------

SimInit ==
    /\ pc = "idle"
    /\ stop_listening_events = FALSE
    /\ on_rumble = TRUE
    /\ clock = 0
    /\ ticks = 0
    /\ ff_effects = [id \in EffectIds |-> NoEffect]
    /\ current_gain = MAX_GAIN
    /\ active_effects = << >>
    /\ next_uid = 1
    /\ log = << >>
    /\ \E d \in SimDescs, g \in SimGains :
           sim = [desc |-> d, effect |-> create_rumble_effect(1, g, d, 0),
                  now |-> 0, phase |-> "created"]

\* simulate_rumble(effect, now): first at the instant of the activation, then
\* one clock period after the other
SimStep ==
    /\ sim.now <= sim.effect.end_point
    /\ sim' = [desc |-> sim.desc] @@
                  (IF sim.phase = "created" THEN SimAt(sim.effect, sim.now)
                                            ELSE SimAt(sim.effect, sim.now + 1))
    /\ UNCHANGED << pc, stop_listening_events, on_rumble, clock, ticks, ff_effects,
                    current_gain, active_effects, next_uid, log >>

SimNext == SimStep

SimSpec == SimInit /\ [][SimNext]_vars

\* ------------------------------------------------------------------------
\* Vocabulary of the properties
\* ------------------------------------------------------------------------

IsUpload(ev)     == ev.type = "EV_UINPUT" /\ ev.code = UI_FF_UPLOAD
IsErase(ev)      == ev.type = "EV_UINPUT" /\ ev.code = UI_FF_ERASE
IsGain(ev)       == ev.type = "EV_FF" /\ ev.code = FF_GAIN
IsActivate(ev)   == ev.type = "EV_FF" /\ ev.code # FF_GAIN /\ ev.value # 0
IsDeactivate(ev) == ev.type = "EV_FF" /\ ev.code # FF_GAIN /\ ev.value = 0

\* the step is an iteration of the loop
IsTick == ticks' = ticks + 1

\* the events the iteration fetched
Fetched == log'[1].events

\* the loop's locals when the iteration starts, and after it has handled its
\* first k events
Before == Locals(ff_effects, current_gain, active_effects, next_uid, Fetched)
AfterEvents(k) == HandleEvents(Before, SubSeq(Fetched, 1, k), clock')

\* what a handler added to the log
LogDelta(a, b) == SubSeq(b.log, Len(a.log) + 1, Len(b.log))

Uids(active) == { active[i].uid : i \in 1..Len(active) }
WithId(active, id) == { i \in 1..Len(active) : active[i].effect_id = id }

\* an on_rumble call made from `src`
IsCall(x, src) == x.op = "on_rumble" /\ x.src = src
IsStopCall(x, src) == IsCall(x, src) /\ x.strong = ZeroU32 /\ x.weak = ZeroU32
CallsOf(l, src, uid) == { k \in 1..Len(l) : IsCall(l[k], src) /\ l[k].uid = uid }
CallsFrom(l, src) == { k \in 1..Len(l) : IsCall(l[k], src) }

\* ------------------------------------------------------------------------
\* C1
\* ------------------------------------------------------------------------

\* C1 (as claimed): an instance whose simulated pair is the same nonzero
\* value at two consecutive iterations is reported by the re-evaluation at
\* the first of them only: the second makes no on_rumble call for it.
C1_ReportedOnlyOnChange ==
    [][IsTick =>
         \A i \in 1..Len(active_effects), j \in 1..Len(active_effects') :
            ( /\ active_effects[i].uid = active_effects'[j].uid
              /\ simulate_rumble(active_effects[i], clock)
                     = simulate_rumble(active_effects'[j], clock')
              /\ simulate_rumble(active_effects[i], clock) # << ZeroU32, ZeroU32 >> )
            => CallsOf(log', "simulate", active_effects[i].uid) = {}]_vars

\* ------------------------------------------------------------------------
\* C2
\* ------------------------------------------------------------------------

IoctlsFor(id) == { k \in 1..Len(log) : log[k].op = "ioctl" /\ log[k].effect_id = id }
LastOf(S) == CHOOSE k \in S : \A m \in S : m <= k

\* C2 (as claimed): once an erase request for id has been processed (and no
\* upload of id after it), the effect store holds no descriptor for id.
C2_EraseRemovesDescriptor ==
    \A id \in EffectIds :
        ( /\ IoctlsFor(id) # {}
          /\ log[LastOf(IoctlsFor(id))].req = "UI_END_FF_ERASE" )
        => ff_effects[id] = NoEffect

\* ------------------------------------------------------------------------
\* C3
\* ------------------------------------------------------------------------

\* what the loop reads from and does to the device, its store and its instances
LoopState == << ticks, ff_effects, current_gain, active_effects, next_uid, log >>

\* C3 (as claimed): from the moment the stop flag is set, the loop fetches no
\* events, makes no ioctl and changes neither the store nor the active set.
C3_NoIOAfterStop ==
    [][stop_listening_events => UNCHANGED LoopState]_vars

\* C3 (amended): the flag is read once per iteration, in the loop condition.
\* With the flag set, the next evaluation of the condition ends the loop and
\* nothing is fetched or changed from then on; an iteration that had passed
\* the condition before the flag was set still runs, once, to its end.
C3_StopsAtNextCheck ==
    [][ /\ (stop_listening_events /\ pc = "check")
            => (pc' \in {"check", "stopped"} /\ UNCHANGED LoopState)
        /\ (pc = "stopped") => (pc' = "stopped" /\ UNCHANGED LoopState)
        /\ (stop_listening_events /\ pc = "sleep" /\ ~UNCHANGED LoopState)
            => (pc' = "check" /\ ticks' = ticks + 1) ]_vars

\* the loop has run, the flag was set while it was listening, and it has ended
C3_Witness ==
    pc = "stopped" /\ stop_listening_events /\ ticks > 0 /\ active_effects # << >>

\* ------------------------------------------------------------------------
\* C4
\* ------------------------------------------------------------------------

\* what a deactivate event for id makes of the locals a: b
Deactivated(a, b, id) ==
    LET mine  == WithId(a.active_effects, id)
        delta == LogDelta(a, b)
    IN  /\ WithId(b.active_effects, id) = {}
        /\ Len(b.active_effects) = Len(a.active_effects) - Cardinality(mine)
        /\ \A i \in (1..Len(a.active_effects)) \ mine :
               b.active_effects[i - Cardinality({ m \in mine : m < i })]
                   = a.active_effects[i]
        /\ \A k \in 1..Len(delta) : IsStopCall(delta[k], "deactivate")
        /\ IF on_rumble
           THEN /\ Len(delta) = Cardinality(mine)
                /\ \A m \in mine :
                       Cardinality(CallsOf(delta, "deactivate", a.active_effects[m].uid)) = 1
           ELSE delta = << >>

\* C4: a deactivate event (EV_FF, value 0) for id removes every active
\* instance of id and calls on_rumble(0, 0) exactly once for each of them (not
\* at all without a callback); the instances of the other ids stay, unchanged
\* and in their order.
C4_DeactivateRemovesAll ==
    [][IsTick =>
         \A k \in 1..Len(Fetched) :
            IsDeactivate(Fetched[k])
            => Deactivated(AfterEvents(k - 1), AfterEvents(k), Fetched[k].code)]_vars

\* an iteration deactivated two instances of one id (two (0,0) calls) while an
\* instance of another id was active, which the sweep of the iteration took
C4_Witness ==
    /\ log # << >>
    /\ \E k \in 1..Len(log[1].events) : IsDeactivate(log[1].events[k])
    /\ Cardinality(CallsFrom(log, "deactivate")) = 2
    /\ Cardinality({ log[k].uid : k \in CallsFrom(log, "deactivate") }) = 2
    /\ CallsFrom(log, "sweep") # {}

\* ------------------------------------------------------------------------
\* C5
\* ------------------------------------------------------------------------

\* the iteration fetched a deactivate or an erase event for id
ExplicitlyRemoved(id) ==
    \E k \in 1..Len(Fetched) :
        \/ IsDeactivate(Fetched[k]) /\ Fetched[k].code = id
        \/ IsErase(Fetched[k]) /\ Fetched[k].effect_id = id

\* C5: an instance that no deactivate or erase event removes is removed by
\* the sweep of the first iteration whose now is at or after its end_point,
\* with exactly one on_rumble(0, 0) call (none without a callback); that
\* iteration does not re-evaluate it, and it never comes back.
C5_ExpiredSwept ==
    [][IsTick =>
         /\ \A j \in 1..Len(active_effects') :
               /\ active_effects'[j].end_point > clock'
               /\ \/ active_effects'[j].uid \in Uids(active_effects)
                  \/ active_effects'[j].uid >= next_uid
         /\ \A k \in CallsFrom(log', "simulate") :
               log'[k].uid \in Uids(active_effects')
         /\ \A i \in 1..Len(active_effects) :
               LET e == active_effects[i]
               IN  (e.end_point <= clock' /\ ~ExplicitlyRemoved(e.effect_id))
                   => /\ e.end_point > clock
                      /\ e.uid < next_uid
                      /\ e.uid \notin Uids(active_effects')
                      /\ Cardinality(CallsOf(log', "sweep", e.uid))
                             = IF on_rumble THEN 1 ELSE 0
                      /\ \A k \in CallsOf(log', "sweep", e.uid) :
                             IsStopCall(log'[k], "sweep")
                      /\ { k \in 1..Len(log') :
                             log'[k].op = "on_rumble" /\ log'[k].uid = e.uid }
                             = CallsOf(log', "sweep", e.uid)]_vars

\* the sweep of an iteration that fetched nothing removed the only active
\* instance, whose time was over, and reported its stop
C5_Witness ==
    /\ log # << >>
    /\ log[1].events = << >>
    /\ Cardinality(CallsFrom(log, "sweep")) = 1
    /\ active_effects = << >>

\* ------------------------------------------------------------------------
\* C6
\* ------------------------------------------------------------------------

\* what an erase event for id makes of the locals a: b
Erased(a, b, id) ==
    LET mine  == WithId(a.active_effects, id)
        delta == LogDelta(a, b)
        n     == Len(delta)
    IN  /\ WithId(b.active_effects, id) = {}
        /\ n = 2 + (IF on_rumble THEN Cardinality(mine) ELSE 0)
        /\ delta[1] = Ioctl("UI_BEGIN_FF_ERASE", id)
        /\ delta[n] = Ioctl("UI_END_FF_ERASE", id)
        /\ \A k \in 2..(n - 1) : IsStopCall(delta[k], "erase")
        /\ on_rumble =>
               \A m \in mine :
                   Cardinality(CallsOf(delta, "erase", a.active_effects[m].uid)) = 1

\* C6: an erase request for id removes every active instance of id while the
\* event is handled: between the begin and the end ioctl of the erase, so
\* before it is acknowledged, and before the sweep of the iteration, with one
\* on_rumble(0, 0) call per removed instance; without an active instance of id
\* the erase makes no call.
C6_EraseDeactivatesAtOnce ==
    [][IsTick =>
         /\ \A k \in 1..Len(Fetched) :
               IsErase(Fetched[k])
               => Erased(AfterEvents(k - 1), AfterEvents(k), Fetched[k].effect_id)
         /\ \A k \in CallsFrom(log', "erase"), m \in CallsFrom(log', "sweep") : k < m]_vars

\* an erase found an instance of its id active and stopped it before the
\* acknowledgement
C6_Witness ==
    /\ Len(log) >= 4
    /\ log[2].op = "ioctl" /\ log[2].req = "UI_BEGIN_FF_ERASE"
    /\ IsStopCall(log[3], "erase")
    /\ log[4].op = "ioctl" /\ log[4].req = "UI_END_FF_ERASE"

\* ------------------------------------------------------------------------
\* C7
\* ------------------------------------------------------------------------

\* C7: an activation event for an id without a descriptor in the store
\* changes nothing (no instance, no call, same store, same gain); so an
\* activation adds an instance only of an id whose descriptor the store holds
\* at that moment, and the instance is of that id.
C7_UnknownIdDropped ==
    [][IsTick =>
         \A k \in 1..Len(Fetched) :
            IsActivate(Fetched[k]) =>
               LET a  == AfterEvents(k - 1)
                   b  == AfterEvents(k)
                   id == Fetched[k].code
               IN  /\ a.ff_effects[id] = NoEffect => b = a
                   /\ Len(b.active_effects) > Len(a.active_effects)
                      => /\ a.ff_effects[id] \in Descs
                         /\ b.active_effects[Len(b.active_effects)].effect_id = id]_vars

\* an iteration fetched an activation for an id the store does not hold, and
\* did nothing but fetch
C7_Witness ==
    /\ Len(log) = 1
    /\ Len(log[1].events) = 1
    /\ IsActivate(log[1].events[1])
    /\ ff_effects[log[1].events[1].code] = NoEffect
    /\ active_effects = << >>

\* ------------------------------------------------------------------------
\* C8
\* ------------------------------------------------------------------------

\* C8: an FF_GAIN event with value v sets current_gain to v clamped to
\* [0, 65535] and changes nothing else; every instance keeps the gain it was
\* created with for as long as it is active, and an instance created later
\* captures the gain current at its creation.
C8_GainNotRetroactive ==
    [][IsTick =>
         /\ \A k \in 1..Len(Fetched) :
               LET a  == AfterEvents(k - 1)
                   b  == AfterEvents(k)
                   v  == Fetched[k].value
               IN  /\ IsGain(Fetched[k]) =>
                         /\ b.current_gain = (IF v < 0 THEN 0
                                              ELSE IF v > 65535 THEN 65535 ELSE v)
                         /\ b.active_effects = a.active_effects
                         /\ b.ff_effects = a.ff_effects
                         /\ b.next_uid = a.next_uid
                         /\ b.log = a.log
                   /\ (IsActivate(Fetched[k]) /\ a.ff_effects[Fetched[k].code] # NoEffect) =>
                         b.active_effects[Len(b.active_effects)].gain = a.current_gain
         /\ \A i \in 1..Len(active_effects), j \in 1..Len(active_effects') :
               active_effects[i].uid = active_effects'[j].uid
               => active_effects'[j].gain = active_effects[i].gain]_vars

\* two instances are active with different gains, the gain having changed
\* between their activations, and the older one was re-evaluated after that
C8_Witness ==
    \E i, j \in 1..Len(active_effects) :
        /\ i < j
        /\ active_effects[i].gain = MAX_GAIN
        /\ active_effects[j].gain = 0
        /\ current_gain = 0
        /\ CallsOf(log, "simulate", active_effects[i].uid) # {}

\* ------------------------------------------------------------------------
\* C9 (simulator on its own)
\* ------------------------------------------------------------------------

\* a uint32 that is a 16-bit magnitude, and its value
IsMagnitude(u) == u[1] = 0
Magnitude(u) == u[2]

\* start + (end - start) * time_left / length, rounded down or up
Interpolated(start, end, time_left, length) ==
    LET num == (end - start) * time_left
    IN  { U32(start + (num \div length)), U32(start - ((-num) \div length)) }

\* C9 (as claimed): in the sustain phase, with length > 0, the value of each
\* channel before the gain is start + (end - start) * time_left / length with
\* time_left = end_point - now, for all magnitudes, descending ramps included.
C9_SustainFromTimeLeft ==
    (sim.phase = "sustain" /\ sim.effect.length > 0) =>
        LET e  == sim.effect
            tl == time_left_ms(e, sim.now)
        IN  /\ (IsMagnitude(e.start.weak) /\ IsMagnitude(e.end.weak)) =>
                   sim.pre[1] \in Interpolated(Magnitude(e.start.weak),
                                               Magnitude(e.end.weak), tl, e.length)
            /\ (IsMagnitude(e.start.strong) /\ IsMagnitude(e.end.strong)) =>
                   sim.pre[2] \in Interpolated(Magnitude(e.start.strong),
                                               Magnitude(e.end.strong), tl, e.length)

\* ------------------------------------------------------------------------
\* C10 (simulator on its own)
\* ------------------------------------------------------------------------

\* elapsed-into-fade time dt = (t - length) + fade_length = fade_length - time_left
FadeDt(s) == s.effect.envelope.fade_length - time_left_ms(s.effect, s.now)

Elapsed(s) == s.effect.length - time_left_ms(s.effect, s.now)

\* C11: in the attack phase (0 <= t < attack_length) both channels have the
\* value attack_level * t / attack_length before the gain, whatever the start
\* and end magnitudes, and that value times gain / MAX_GAIN after it; at
\* t = attack_length / 2 with gain MAX_GAIN the result is half of attack_level
\* within rounding.
C11_AttackFromZero ==
    sim.phase = "attack" =>
        LET env == sim.effect.envelope
            t   == Elapsed(sim)
            v   == (env.attack_level * t) \div env.attack_length
            g   == sim.effect.gain
        IN  /\ 0 <= t /\ t < env.attack_length
            /\ sim.pre = << U32(v), U32(v) >>
            /\ sim.out = << U32((v * g) \div MAX_GAIN), U32((v * g) \div MAX_GAIN) >>
            /\ (g = MAX_GAIN /\ 2 * t = env.attack_length)
                   => /\ IsMagnitude(sim.out[1])
                      /\ 2 * Magnitude(sim.out[1]) \in
                             (env.attack_level - 1)..(env.attack_level + 1)
                      /\ sim.out[2] = sim.out[1]

\* half way through the attack of a ramp whose magnitudes differ from each
\* other and from the attack level, at full gain
C11_Witness ==
    /\ sim.phase = "attack"
    /\ sim.desc.type = "FF_RAMP"
    /\ sim.effect.gain = MAX_GAIN
    /\ 2 * Elapsed(sim) = sim.effect.envelope.attack_length
    /\ 2 * Magnitude(sim.out[1]) = sim.effect.envelope.attack_level
    /\ Magnitude(sim.out[1]) > Magnitude(sim.effect.start.weak)

\* ------------------------------------------------------------------------
\* C12 (simulator on its own)
\* ------------------------------------------------------------------------

\* the instance has been evaluated at sim.now
Evaluated == sim.phase \notin {"off", "created"}

\* C12: an instance of a rumble descriptor (weak w, strong s) with gain
\* MAX_GAIN has the simulated pair (weak w, strong s) at every instant with
\* start_point <= now < end_point, and every on_rumble call the loop makes for
\* it there has the arguments (strong s, weak w), in that order.
C12_RumbleConstant ==
    ( /\ Evaluated
      /\ sim.desc.type = "FF_RUMBLE"
      /\ sim.effect.gain = MAX_GAIN
      /\ sim.effect.start_point <= sim.now
      /\ sim.now < sim.effect.end_point )
    => /\ sim.out = << U32(sim.desc.weak_magnitude), U32(sim.desc.strong_magnitude) >>
       /\ \A k \in 1..Len(sim.calls) :
              /\ sim.calls[k].op = "on_rumble"
              /\ sim.calls[k].strong = U32(sim.desc.strong_magnitude)
              /\ sim.calls[k].weak = U32(sim.desc.weak_magnitude)

\* the rumble (weak 100, strong 200) is reported in the last millisecond of
\* its window as on_rumble(200, 100)
C12_Witness ==
    /\ Evaluated
    /\ sim.desc.type = "FF_RUMBLE"
    /\ sim.effect.gain = MAX_GAIN
    /\ sim.now < sim.effect.end_point
    /\ time_left_ms(sim.effect, sim.now) = 0
    /\ Len(sim.calls) = 1
    /\ sim.calls[1].strong = U32(200)
    /\ sim.calls[1].weak = U32(100)

\* ------------------------------------------------------------------------
\* C13 (simulator on its own)
\* ------------------------------------------------------------------------

\* C13: an instance that captured the gain 0 has the simulated pair (0, 0) at
\* every instant and in every phase, whatever its descriptor, and the loop
\* over active_effects makes no on_rumble call for it.
C13_ZeroGainSilent ==
    (Evaluated /\ sim.effect.gain = 0)
    => /\ sim.out = << ZeroU32, ZeroU32 >>
       /\ sim.calls = << >>

\* a gain of 0 silences an instance whose value before the gain is not 0, here
\* in the fade of a constant effect
C13_Witness ==
    /\ Evaluated
    /\ sim.effect.gain = 0
    /\ sim.phase = "fade"
    /\ sim.desc.type = "FF_CONSTANT"
    /\ sim.pre[1] # ZeroU32 /\ sim.pre[2] # ZeroU32
    /\ sim.out = << ZeroU32, ZeroU32 >>

\* ------------------------------------------------------------------------
\* C20 (simulator on its own)
\* ------------------------------------------------------------------------

Min(a, b) == IF a < b THEN a ELSE b
Max(a, b) == IF a < b THEN b ELSE a

\* the start and the end magnitude of channel ch (1 weak, 2 strong)
StartOf(e, ch) == IF ch = 1 THEN e.start.weak ELSE e.start.strong
EndOf(e, ch) == IF ch = 1 THEN e.end.weak ELSE e.end.strong

\* C20 (as claimed): with magnitudes, envelope levels and gain in [0, 65535],
\* each channel value the simulator computes is free of wrap-around and lies
\* in [0, 65535], before and after the gain: in sustain between the smaller
\* and the larger of start and end (scaled by gain / MAX_GAIN after the gain),
\* in attack at most attack_level, in fade at most fade_level.
C20_NoWrapAround ==
    (Evaluated /\ sim.phase # "outside") =>
        \A ch \in {1, 2} :
            LET e  == sim.effect
                lo == Min(Magnitude(StartOf(e, ch)), Magnitude(EndOf(e, ch)))
                hi == Max(Magnitude(StartOf(e, ch)), Magnitude(EndOf(e, ch)))
            IN  (IsMagnitude(StartOf(e, ch)) /\ IsMagnitude(EndOf(e, ch))) =>
                    /\ IsMagnitude(sim.pre[ch])
                    /\ IsMagnitude(sim.out[ch])
                    /\ sim.phase = "sustain" =>
                           /\ lo <= Magnitude(sim.pre[ch])
                           /\ Magnitude(sim.pre[ch]) <= hi
                           /\ (lo * e.gain) \div MAX_GAIN <= Magnitude(sim.out[ch])
                           /\ Magnitude(sim.out[ch]) <= (hi * e.gain) \div MAX_GAIN
                    /\ sim.phase = "attack" =>
                           Magnitude(sim.pre[ch]) <= e.envelope.attack_level
                    /\ sim.phase = "fade" =>
                           Magnitude(sim.pre[ch]) <= e.envelope.fade_level

\* ------------------------------------------------------------------------
\* C14
\* ------------------------------------------------------------------------

\* C14: an upload request for id sets the store entry of id to the uploaded
\* descriptor and changes nothing else: the entries of the other ids, the
\* gain and every active instance (those made of id included) stay as they
\* are, and the event causes no on_rumble call (only its two ioctls).
C14_UploadOnlyStores ==
    [][IsTick =>
         \A k \in 1..Len(Fetched) :
            IsUpload(Fetched[k]) =>
               LET a  == AfterEvents(k - 1)
                   b  == AfterEvents(k)
                   id == Fetched[k].effect_id
               IN  /\ b.ff_effects[id] = Fetched[k].effect
                   /\ \A other \in EffectIds \ {id} :
                          b.ff_effects[other] = a.ff_effects[other]
                   /\ b.current_gain = a.current_gain
                   /\ b.active_effects = a.active_effects
                   /\ b.next_uid = a.next_uid
                   /\ LogDelta(a, b) = << Ioctl("UI_BEGIN_FF_UPLOAD", id),
                                          Ioctl("UI_END_FF_UPLOAD", id) >>]_vars

\* an upload has replaced the descriptor of an id while an instance made of
\* the replaced descriptor was active, and the instance is still there with
\* the length it had
C14_Witness ==
    /\ log # << >>
    /\ Len(log[1].events) = 1
    /\ IsUpload(log[1].events[1])
    /\ ff_effects[log[1].events[1].effect_id] = log[1].events[1].effect
    /\ \E i \in 1..Len(active_effects) :
           /\ active_effects[i].effect_id = log[1].events[1].effect_id
           /\ active_effects[i].length # Clamp(log[1].events[1].effect.length, 0, MAX_DURATION)
    /\ \A k \in 1..Len(log) : log[k].op # "on_rumble" \/ log[k].src = "simulate"

\* ------------------------------------------------------------------------
\* C15
\* ------------------------------------------------------------------------

\* C15: no evaluation of the simulator made by the loop divides by zero. For
\* every instance that is left after the sweep of an iteration, at the now of
\* that iteration: the attack branch is not taken with attack_length = 0, the
\* fade branch is not taken with fade_length = 0, and an instance of length 0
\* is outside its window, so rumble_magnitude is not called with length = 0.
C15_NoDivisionByZero ==
    [][IsTick =>
         /\ pc' # "undefined"
         /\ \A j \in 1..Len(active_effects') :
               LET e  == active_effects'[j]
                   ph == Phase(e, clock')
               IN  /\ 0 \notin Divisors(e, clock')
                   /\ ph = "attack" => e.envelope.attack_length > 0
                   /\ ph = "fade" => e.envelope.fade_length > 0
                   /\ ph = "sustain" => e.length > 0
                   /\ e.length = 0 => ph = "outside"]_vars

\* an iteration activated a descriptor of replay length 0 and delay 0, and
\* its sweep removed the instance before the simulation, while an instance of
\* a descriptor with empty envelope was simulated in its sustain branch
C15_Witness ==
    /\ log # << >>
    /\ Len(log[1].events) = 1
    /\ IsActivate(log[1].events[1])
    /\ ff_effects[log[1].events[1].code].type # "none"
    /\ ff_effects[log[1].events[1].code].length = 0
    /\ WithId(active_effects, log[1].events[1].code) = {}
    /\ \E i \in 1..Len(active_effects) :
           /\ Phase(active_effects[i], clock) = "sustain"
           /\ active_effects[i].envelope = NoEnvelope

\* ------------------------------------------------------------------------
\* C16
\* ------------------------------------------------------------------------

\* the instances of id in the locals a that have not started at `now`
Waiting(a, id, now) ==
    { i \in WithId(a.active_effects, id) : now < a.active_effects[i].start_point }

\* C16: at every iteration whose now is before the start_point of an
\* instance, the simulated pair of the instance is (0, 0) and the
\* re-evaluation makes no call for it; the instance stays in the active set
\* unless a deactivate or erase event names its id, and such an event removes
\* it, with one on_rumble(0, 0) call, although it never started.
C16_SilentDuringDelay ==
    [][IsTick =>
         /\ \A j \in 1..Len(active_effects') :
               LET e == active_effects'[j]
               IN  clock' < e.start_point
                   => /\ simulate_rumble(e, clock') = << ZeroU32, ZeroU32 >>
                      /\ CallsOf(log', "simulate", e.uid) = {}
         /\ \A i \in 1..Len(active_effects) :
               LET e == active_effects[i]
               IN  (clock' < e.start_point /\ ~ExplicitlyRemoved(e.effect_id))
                   => \E j \in 1..Len(active_effects') : active_effects'[j] = e
         /\ \A k \in 1..Len(Fetched) :
               LET a   == AfterEvents(k - 1)
                   b   == AfterEvents(k)
                   ev  == Fetched[k]
                   id  == IF IsErase(ev) THEN ev.effect_id ELSE ev.code
                   src == IF IsErase(ev) THEN "erase" ELSE "deactivate"
               IN  (IsErase(ev) \/ IsDeactivate(ev)) =>
                      \A i \in Waiting(a, id, clock') :
                         /\ a.active_effects[i].uid \notin Uids(b.active_effects)
                         /\ Cardinality(CallsOf(LogDelta(a, b), src, a.active_effects[i].uid))
                                = IF on_rumble THEN 1 ELSE 0
                         /\ \A c \in CallsOf(LogDelta(a, b), src, a.active_effects[i].uid) :
                                IsStopCall(LogDelta(a, b)[c], src)]_vars

\* the third iteration deactivates the instance that the second made of the
\* delayed descriptor uploaded in the first: it is removed during its delay,
\* with its (0, 0) call and without ever having been reported
C16_Witness ==
    /\ ticks = 3
    /\ on_rumble
    /\ Len(log) = 2
    /\ Len(log[1].events) = 1
    /\ IsDeactivate(log[1].events[1])
    /\ IsStopCall(log[2], "deactivate")
    /\ ff_effects[log[1].events[1].code].type # "none"
    /\ ff_effects[log[1].events[1].code].delay > 0
    /\ active_effects = << >>

\* ------------------------------------------------------------------------
\* C17
\* ------------------------------------------------------------------------

\* a duration of the descriptor limited to [0, 32767] ms
Limited(ms) == IF ms < 0 THEN 0 ELSE IF ms > 32767 THEN 32767 ELSE ms

\* C17: an activation event for an id in the store appends exactly one
\* instance and keeps the others (also those of the same id); the new
\* instance has start_point = activation time + delay and end_point =
\* start_point + length, with delay and length of the descriptor limited to
\* [0, 32767] ms; every active instance has end_point >= start_point, a
\* length in [0, 32767] ms, and ends at most 65534 ms after its activation.
C17_OneInstancePerActivation ==
    [][IsTick =>
         /\ \A k \in 1..Len(Fetched) :
               LET a  == AfterEvents(k - 1)
                   b  == AfterEvents(k)
                   id == Fetched[k].code
                   d  == a.ff_effects[id]
                   n  == Len(a.active_effects)
               IN  (IsActivate(Fetched[k]) /\ d # NoEffect) =>
                      /\ Len(b.active_effects) = n + 1
                      /\ SubSeq(b.active_effects, 1, n) = a.active_effects
                      /\ LET x == b.active_effects[n + 1]
                         IN  /\ x.effect_id = id
                             /\ x.uid \notin Uids(a.active_effects)
                             /\ x.start_point = clock' + Limited(d.delay) * UnitsPerMs
                             /\ x.length = Limited(d.length)
                             /\ x.end_point = x.start_point + Limited(d.length) * UnitsPerMs
                             /\ x.end_point - clock' <= 65534 * UnitsPerMs
                      /\ b.ff_effects = a.ff_effects
                      /\ b.current_gain = a.current_gain
                      /\ b.log = a.log
         /\ \A j \in 1..Len(active_effects') :
               LET e == active_effects'[j]
               IN  /\ e.end_point >= e.start_point
                   /\ e.end_point = e.start_point + e.length * UnitsPerMs
                   /\ 0 <= e.length /\ e.length <= 32767]_vars

\* two instances of one id are active together, both made of the descriptor
\* whose delay and length are above 32767, both with the limited length
C17_Witness ==
    \E i, j \in 1..Len(active_effects) :
        /\ i < j
        /\ active_effects[i].effect_id = active_effects[j].effect_id
        /\ active_effects[i].start_point < active_effects[j].start_point
        /\ active_effects[i].length = 32767
        /\ active_effects[j].length = 32767
        /\ active_effects[j].end_point - active_effects[j].start_point = 32767 * UnitsPerMs
        /\ ff_effects[active_effects[i].effect_id].length > 32767

\* ------------------------------------------------------------------------
\* C18
\* ------------------------------------------------------------------------

\* the instances an iteration removed: those it found or created that it
\* does not leave behind
RemovedByTick ==
    (Uids(active_effects) \cup (next_uid..(next_uid' - 1))) \ Uids(active_effects')

\* the on_rumble(0, 0) calls of a log
ZeroCalls(l) ==
    { k \in 1..Len(l) : l[k].op = "on_rumble" /\ l[k].strong = ZeroU32 /\ l[k].weak = ZeroU32 }

\* C18: in every iteration the number of on_rumble(0, 0) calls is the number
\* of instances removed from the active set (by deactivate, erase or expiry)
\* when a callback is installed, one call for each removed instance and none
\* made by the re-evaluation; without a callback no call is made at all.
C18_ZeroCallsCountRemovals ==
    [][IsTick =>
         /\ \A k \in CallsFrom(log', "simulate") : k \notin ZeroCalls(log')
         /\ \A k \in ZeroCalls(log') :
               /\ log'[k].src \in {"deactivate", "erase", "sweep"}
               /\ log'[k].uid \in RemovedByTick
         /\ IF on_rumble
            THEN /\ Cardinality(ZeroCalls(log')) = Cardinality(RemovedByTick)
                 /\ \A u \in RemovedByTick :
                        Cardinality({ k \in ZeroCalls(log') : log'[k].uid = u }) = 1
            ELSE \A k \in 1..Len(log') : log'[k].op # "on_rumble"]_vars

\* one iteration removed an instance by an event and another one by the
\* sweep, each with its (0, 0) call, and reported a third one
C18_Witness ==
    /\ Cardinality(ZeroCalls(log)) = 2
    /\ Cardinality(CallsFrom(log, "sweep")) = 1
    /\ Cardinality(CallsFrom(log, "deactivate") \cup CallsFrom(log, "erase")) = 1
    /\ CallsFrom(log, "simulate") # {}

\* ------------------------------------------------------------------------
\* C19
\* ------------------------------------------------------------------------

\* the serial numbers activations can get within the iterations followed
MaxUid == MaxTicks * MaxEvents

\* the instance of serial number u is in the active set
Present(u) == u \in Uids(active_effects)

\* the instance of serial number u is active and its end_point is reached by
\* one of the iterations that are followed
EndsInSight(u) ==
    \E i \in 1..Len(active_effects) :
        /\ active_effects[i].uid = u
        /\ active_effects[i].end_point <= clock + (MaxTicks - ticks) * Step

\* C19: while the stop flag is not set and the loop keeps iterating, every
\* instance is removed from the active set, also when no event removes it, and
\* no later than by the first
\* iteration whose now is at or after its end_point: between iterations every
\* active instance has its end_point after the last now and at most 65534 ms
\* ahead of it.
C19_EveryInstanceRemoved ==
    /\ [](\A i \in 1..Len(active_effects) :
             /\ clock < active_effects[i].end_point
             /\ active_effects[i].end_point <= clock + 65534 * UnitsPerMs)
    /\ \A u \in 1..MaxUid :
           EndsInSight(u) ~> (~Present(u) \/ stop_listening_events)

\* the active set is empty again: the sweep of an iteration that fetched
\* nothing took the last of three instances that had been activated
C19_Witness ==
    /\ ~stop_listening_events
    /\ next_uid > 3
    /\ active_effects = << >>
    /\ log # << >>
    /\ log[1].events = << >>
    /\ CallsFrom(log, "sweep") # {}

====
